---- MODULE Spec2Model ----
(***************************************************************************)
(* Vector index and retrieval layer: VectorStore (FAISS IndexFlatL2 plus a *)
(* parallel metadata log, both rewritten to disk on every add), the        *)
(* Retriever that queries it and the Ingestor that fills it.               *)
(*                                                                         *)
(* Positions are zero-based in the program and one-based in TLA+           *)
(* sequences; the operators below convert at the boundary.                 *)
(***************************************************************************)
EXTENDS Integers, Sequences, FiniteSets, TLC

\* ------------------------------------------------------------------ bounds
MaxStored == 2
MaxK == 3
MaxIndices == 2
MaxFiles == 2
\* _chunk_text is run on texts of up to MaxText characters, with
\* chunk_size up to MaxChunkSize and chunk_overlap up to MaxOverlap; the
\* model counts up to MaxChunks chunks.
MaxText == 4
MaxChunkSize == 3
MaxOverlap == 3
MaxChunks == 6

\* The dimensions a store is constructed with, and the lengths of the
\* vectors handed to it: shorter than, equal to and longer than a dimension.
Dims == {1, 2}
VectorLengths == {0, 1, 2}
BatchLengths == {0, 1, 2}
\* Vector components: two values are enough to tell vectors apart and to
\* give both equal and different distances.
Components == {0, 1}
Vectors == UNION {[1..n -> Components] : n \in VectorLengths}
\* The vectors handed to add_vectors: of every length, all components alike
\* (add_vectors never looks at the values).
InputVectors == {[i \in 1..n |-> c] : n \in VectorLengths, c \in Components}
Batches == UNION {[1..n -> InputVectors] : n \in BatchLengths}

\* Metadata records as the processors build them: a type discriminant and a
\* source.
Records ==
    { [type |-> "text", source |-> "cat.txt"],
      [type |-> "image", source |-> "pic.png"] }

\* The metadata_list argument: a list of records, or a value that list.extend
\* cannot iterate (None).
MetaLists ==
    { [none |-> FALSE, recs |-> rs] :
        rs \in UNION {[1..n -> Records] : n \in BatchLengths} }
    \cup { [none |-> TRUE, recs |-> <<>>] }

IndexValues == (0 - MaxStored)..MaxStored
IndexLists == UNION {[1..n -> IndexValues] : n \in 0..MaxIndices}

\* Outcomes of _save_index: both files written, faiss.write_index raised,
\* or the metadata write raised after the index file was written.
SaveFaults == {"none", "index", "meta"}

VARIABLES
    dimension,   \* self.dimension
    index,       \* self.index: [d, vecs], a faiss.IndexFlatL2
    metadata,    \* self.metadata
    origin,      \* history: for each stored vector, the record passed with it
    diskIndex,   \* the file at index_path
    diskMeta,    \* the file at metadata_path
    diskOrigin,  \* history: origin as of the index file
    call,        \* the last call made on the store and what it returned
    inflight,    \* an add_vectors call another thread is in the middle of
    other,       \* a second VectorStore instance the host holds on the same paths
    chunker      \* a TextProcessor._chunk_text call in progress

vars == <<dimension, index, metadata, origin, diskIndex, diskMeta, diskOrigin,
          call, inflight, other, chunker>>

\* ------------------------------------------------------------- faiss index
\* faiss.IndexFlatL2(d): an empty flat index of dimension d.
IndexFlatL2(d) == [d |-> d, vecs |-> <<>>]

\* index.ntotal
ntotal(idx) == Len(idx.vecs)

\* np.array(vectors).astype('float32') followed by index.add: the array must
\* be two-dimensional (n, d) with d equal to the index's dimension. An empty
\* list gives shape (0,), a ragged list does not convert, and a wrong width
\* fails faiss's dimension assertion; each raises before anything is added.
AddRaises(idx, vs) ==
    IF Len(vs) = 0
    THEN TRUE
    ELSE \/ \E i \in 1..Len(vs) : Len(vs[i]) # Len(vs[1])
         \/ Len(vs[1]) # idx.d

IndexAdd(idx, vs) == [idx EXCEPT !.vecs = @ \o vs]

\* Squared Euclidean distance, the metric IndexFlatL2 reports.
RECURSIVE SumSq(_, _, _)
SumSq(x, y, n) ==
    IF n = 0 THEN 0 ELSE (x[n] - y[n]) * (x[n] - y[n]) + SumSq(x, y, n - 1)

L2Sqr(x, y) == SumSq(x, y, Len(x))

\* The distance faiss reports for a missing neighbour (float32 max), paired
\* with the label -1.
FltMax == 1000000
NoLabel == 0 - 1

Min(a, b) == IF a < b THEN a ELSE b

\* A scan that reports the first m stored vectors in insertion order.
RankedByPosition(idx, q, m) == { [i \in 1..m |-> i] }

\* The orders in which IndexFlatL2.search can report the m nearest of the
\* stored vectors: distinct positions, nearest first, none of the vectors
\* left out nearer than one reported. Equidistant vectors come in any order.
Ranked(idx, q, m) ==
    { s \in [1..m -> 1..ntotal(idx)] :
        /\ \A i, j \in 1..m : i # j => s[i] # s[j]
        /\ \A i, j \in 1..m :
             i < j => L2Sqr(idx.vecs[s[i]], q) <= L2Sqr(idx.vecs[s[j]], q)
        /\ \A p \in 1..ntotal(idx) :
             (\A i \in 1..m : s[i] # p) =>
                \A i \in 1..m : L2Sqr(idx.vecs[s[i]], q) <= L2Sqr(idx.vecs[p], q) }

\* index.search(query_np, k): k labels and k distances; the slots beyond
\* the stored vectors hold label -1 and distance float-max.
IndexSearch(idx, q, k) ==
    LET m == Min(k, ntotal(idx))
    IN  { [indices   |-> [i \in 1..k |-> IF i <= m THEN s[i] - 1 ELSE NoLabel],
           distances |-> [i \in 1..k |->
                            IF i <= m THEN L2Sqr(idx.vecs[s[i]], q) ELSE FltMax]]
          : s \in Ranked(idx, q, m) }

\* VectorStore.search(query_vector, k): the query is wrapped into a (1, len)
\* array; a width other than the index's fails faiss's assertion and the
\* handler returns ([], []).
search(idx, q, k) ==
    IF Len(q) # idx.d
    THEN { [indices |-> <<>>, distances |-> <<>>] }
    ELSE IndexSearch(idx, q, k)

\* -------------------------------------------------------------- metadata
\* Python list indexing: position i >= 0 counts from the front, i < 0 from
\* the back.
PyItem(lst, i) == IF i >= 0 THEN lst[i + 1] ELSE lst[Len(lst) + i + 1]

\* VectorStore.get_metadata(indices): the comprehension keeps every i with
\* i < len(self.metadata) and indexes the list with it; an index below
\* -len raises IndexError and the handler returns [].
get_metadata(meta, indices) ==
    LET kept == SelectSeq(indices, LAMBDA i : i < Len(meta))
    IN  IF \E j \in 1..Len(kept) : kept[j] < 0 - Len(meta)
        THEN <<>>
        ELSE [j \in 1..Len(kept) |-> PyItem(meta, kept[j])]

\* VectorStore.get_total_vectors()
get_total_vectors(idx) == ntotal(idx)

\* ------------------------------------------------------------ persistence
AbsentIndexFile == [state |-> "absent", d |-> 0, n |-> 0, data |-> <<>>]
CorruptIndexFile == [state |-> "corrupt", d |-> 0, n |-> 0, data |-> <<>>]
AbsentMetaFile == [state |-> "absent", text |-> <<>>]
CorruptMetaFile == [state |-> "corrupt", text |-> <<>>]

\* faiss.write_index: the dimension, the count and the components of all
\* vectors in one flat array.
write_index(idx) ==
    [state |-> "ok", d |-> idx.d, n |-> ntotal(idx),
     data  |-> [p \in 1..(ntotal(idx) * idx.d) |->
                  idx.vecs[((p - 1) \div idx.d) + 1][((p - 1) % idx.d) + 1]]]

\* faiss.read_index: cuts the flat array back into n vectors of width d.
read_index(file) ==
    [d    |-> file.d,
     vecs |-> [i \in 1..file.n |->
                 [j \in 1..file.d |-> file.data[(i - 1) * file.d + j]]]]

\* json.dump(self.metadata, f): an array of objects, one member per key, the
\* string values as JSON strings, the numeric ones as JSON numbers.
NumberKeys == {"chunk", "distance", "relevance_score"}
JsonObject(rec) ==
    [k \in DOMAIN rec |->
        <<IF k \in NumberKeys THEN "number" ELSE "string", rec[k]>>]

json_dump(meta) ==
    [state |-> "ok", text |-> [i \in 1..Len(meta) |-> JsonObject(meta[i])]]

\* json.load(f): each object becomes a dict again.
json_load(file) ==
    [i \in 1..Len(file.text) |->
        [k \in DOMAIN file.text[i] |-> file.text[i][k][2]]]

\* A handler that resets only the metadata log: the index read before the
\* metadata file failed to parse stays loaded.
InitIndexKeepsLoaded(d, ifile, mfile, forigin) ==
    IF ifile.state # "absent" /\ mfile.state # "absent"
    THEN IF ifile.state = "corrupt"
         THEN [index |-> IndexFlatL2(d), metadata |-> <<>>, origin |-> <<>>]
         ELSE IF mfile.state = "corrupt"
         THEN [index |-> read_index(ifile), metadata |-> <<>>,
               origin |-> [i \in 1..ifile.n |-> <<>>]]
         ELSE [index |-> read_index(ifile), metadata |-> json_load(mfile),
               origin |-> forigin]
    ELSE [index |-> IndexFlatL2(d), metadata |-> <<>>, origin |-> <<>>]

\* VectorStore._init_index for a store constructed with dimension d: load
\* both artifacts when both exist; a new empty index otherwise, and also
\* when reading either of them raises. The index is taken from the file as
\* it is, with the dimension stored in the file.
_init_index(d, ifile, mfile, forigin) ==
    IF ifile.state # "absent" /\ mfile.state # "absent"
    THEN IF ifile.state = "corrupt" \/ mfile.state = "corrupt"
         THEN [index |-> IndexFlatL2(d), metadata |-> <<>>, origin |-> <<>>]
         ELSE [index |-> read_index(ifile), metadata |-> json_load(mfile),
               origin |-> forigin]
    ELSE [index |-> IndexFlatL2(d), metadata |-> <<>>, origin |-> <<>>]

\* ----------------------------------------------------------------- calls
\* The record of the last call: its arguments, what the store looked like
\* before it, and what it handed back to the caller.
NoCall ==
    [op |-> "none", ret |-> "",
     nv |-> 0, nm |-> 0, widthOk |-> FALSE, pre |-> 0, preMeta |-> 0,
     changed |-> FALSE, fault |-> "none",
     q |-> <<>>, k |-> 0, indices |-> <<>>, distances |-> <<>>,
     idxs |-> <<>>, recs |-> <<>>,
     ipath |-> "", mpath |-> "",
     count |-> 0, nrecs |-> 0,
     embRaises |-> FALSE, searched |-> FALSE, refs |-> <<>>, results |-> <<>>,
     unit |-> "", unitRet |-> "", processed |-> 0, okRecs |-> <<>>,
     transcript |-> "", loaded |-> 0,
     held |-> FALSE, heldIdxs |-> <<>>, heldRefs |-> <<>>, heldRecs |-> <<>>]

\* No add_vectors call is in progress.
Idle ==
    [pc |-> "idle", vs |-> <<>>, ml |-> [none |-> FALSE, recs |-> <<>>],
     pre |-> 0, wellFormed |-> FALSE, faulted |-> FALSE]

\* The host holds no second instance.
NoInstance ==
    [dimension |-> 0, index |-> IndexFlatL2(0), metadata |-> <<>>,
     origin |-> <<>>, call |-> NoCall]

\* No _chunk_text call is in progress.
NotChunking ==
    [pc |-> "idle", len |-> 0, chunk_size |-> 0, chunk_overlap |-> 0,
     start |-> 0, chunks |-> 0]

\* The record passed at the same position as each vector of a batch, as a
\* list of one record, or the empty list where the batch had none.
PairedWith(vs, ml) ==
    [i \in 1..Len(vs) |->
        IF ~ml.none /\ i <= Len(ml.recs) THEN <<ml.recs[i]>> ELSE <<>>]

\* What add_vectors hands back: it has no return statement and its handler
\* swallows every exception, so the caller gets None on every path.
AddReturn(raised) == "None"

Init ==
    /\ dimension \in Dims
    /\ index = IndexFlatL2(dimension)
    /\ metadata = <<>>
    /\ origin = <<>>
    /\ diskIndex = AbsentIndexFile
    /\ diskMeta = AbsentMetaFile
    /\ diskOrigin = <<>>
    /\ call = NoCall
    /\ inflight = Idle
    /\ other = NoInstance
    /\ chunker = NotChunking

\* VectorStore._save_index(): write the index file, then the metadata file;
\* an exception from either write is logged and swallowed. A write that
\* raises leaves its file as it was or leaves a partial file behind.
SaveIndex(idx, meta, org, fault) ==
    \/ /\ fault = "none"
       /\ diskIndex' = write_index(idx)
       /\ diskOrigin' = org
       /\ diskMeta' = json_dump(meta)
    \/ /\ fault = "index"
       /\ diskIndex' \in {diskIndex, CorruptIndexFile}
       /\ UNCHANGED <<diskOrigin, diskMeta>>
    \/ /\ fault = "meta"
       /\ diskIndex' = write_index(idx)
       /\ diskOrigin' = org
       /\ diskMeta' \in {diskMeta, CorruptMetaFile}

\* A handler that undoes the add when a write fails.
RolledBackAfterSave(before, after, fault) ==
    IF fault = "none" THEN after ELSE before

\* The in-memory value once _save_index has returned: its handler only logs,
\* so the value is the one after the add whether or not a write failed.
KeptAfterSave(before, after, fault) == after

\* VectorStore.add_vectors(vectors, metadata_list), called by a caller
\* whose own part of the call record is given.
AddVectorsAs(vs, ml, caller) ==
    /\ ntotal(index) + Len(vs) <= MaxStored
    /\ Len(metadata) + Len(ml.recs) <= MaxStored
    /\ LET rec(raised, fault) ==
            [caller EXCEPT !.op = "add", !.ret = AddReturn(raised),
                           !.nv = Len(vs),
                           !.nm = IF ml.none THEN 0 - 1 ELSE Len(ml.recs),
                           !.widthOk = \A i \in 1..Len(vs) : Len(vs[i]) = dimension,
                           !.pre = ntotal(index),
                           !.preMeta = Len(metadata),
                           !.changed = (index' # index \/ metadata' # metadata),
                           !.fault = fault]
       IN
       \/ \* np.array / index.add raises: nothing was touched
          /\ AddRaises(index, vs)
          /\ UNCHANGED <<index, metadata, origin, diskIndex, diskMeta, diskOrigin>>
          /\ call' = rec(TRUE, "none")
       \/ \* index.add succeeds, metadata.extend raises: no save
          /\ ~AddRaises(index, vs)
          /\ ml.none
          /\ index' = IndexAdd(index, vs)
          /\ origin' = origin \o PairedWith(vs, ml)
          /\ UNCHANGED <<metadata, diskIndex, diskMeta, diskOrigin>>
          /\ call' = rec(TRUE, "none")
       \/ \* index.add, metadata.extend, _save_index
          /\ ~AddRaises(index, vs)
          /\ ~ml.none
          /\ LET added == IndexAdd(index, vs)
                 paired == origin \o PairedWith(vs, ml)
                 extended == metadata \o ml.recs
             IN  \E fault \in SaveFaults :
                   /\ SaveIndex(added, extended, paired, fault)
                   /\ index' = KeptAfterSave(index, added, fault)
                   /\ origin' = KeptAfterSave(origin, paired, fault)
                   /\ metadata' = KeptAfterSave(metadata, extended, fault)
                   /\ call' = rec(FALSE, fault)
    /\ UNCHANGED <<dimension, inflight, other, chunker>>

\* VectorStore.add_vectors(vectors, metadata_list) called directly.
AddVectors(vs, ml) == AddVectorsAs(vs, ml, NoCall)

\* VectorStore.search(query_vector, k)
Search(q, k) ==
    /\ \E r \in search(index, q, k) :
          call' = [NoCall EXCEPT !.op = "search", !.q = q, !.k = k,
                                 !.indices = r.indices,
                                 !.distances = r.distances]
    /\ UNCHANGED <<dimension, index, metadata, origin, diskIndex, diskMeta, diskOrigin,
                   inflight, other, chunker>>

\* The list an earlier get_metadata call on this store handed to the
\* caller, if the caller holds one: the indices asked for, the stored
\* records it refers to, by their place in the log, and the records as they
\* read when the call returned.
KeptList ==
    IF call.op = "get_metadata"
    THEN [held |-> TRUE, idxs |-> call.idxs, refs |-> call.refs,
          recs |-> call.recs]
    ELSE [held |-> call.held, idxs |-> call.heldIdxs, refs |-> call.heldRefs,
          recs |-> call.heldRecs]

\* The call record of a call that leaves the caller's list in its hands.
Keeping ==
    [NoCall EXCEPT !.held = KeptList.held, !.heldIdxs = KeptList.idxs,
                   !.heldRefs = KeptList.refs, !.heldRecs = KeptList.recs]

\* A get_metadata that appended copies, dict(self.metadata[idx]): the list
\* would go on reading as it did when it was returned.
HeldCopies(refs, returned) == returned

\* result.append(self.metadata[idx]): the list holds the stored dicts
\* themselves, so what the caller reads from it later is what the log
\* holds at those places then.
HeldDicts(refs, returned) == [i \in 1..Len(refs) |-> metadata[refs[i]]]

\* VectorStore.get_metadata(indices)
GetMetadata(idxs) ==
    /\ call' = [Keeping EXCEPT !.op = "get_metadata", !.idxs = idxs,
                               !.recs = get_metadata(metadata, idxs),
                               !.refs = get_metadata([p \in 1..Len(metadata) |-> p],
                                                     idxs)]
    /\ UNCHANGED <<dimension, index, metadata, origin, diskIndex, diskMeta, diskOrigin,
                   inflight, other, chunker>>

\* The path arguments a store is constructed with: a file inside a
\* directory that exists or can be created, None (the configuration has no
\* such key), a bare file name, and a file inside a directory that cannot
\* be created.
UsablePath == "dir/file"
PathKinds == {UsablePath, "None", "file", "nodir/file"}

\* os.makedirs(os.path.dirname(index_path), exist_ok=True), outside any
\* try: dirname(None) is a TypeError, dirname of a bare file name is "" and
\* makedirs("") raises, and so does a directory that cannot be created.
MakedirsRaises(ip) == ip # UsablePath

\* What os.path.exists(metadata_path) and the read find at the metadata
\* path: the artifact at the usable location, nothing at any other
\* location, and for None a TypeError, which the handler of _init_index
\* treats like any failed read.
MetaFileAt(mp, mfile) ==
    IF mp = UsablePath THEN mfile
    ELSE IF mp = "None" THEN CorruptMetaFile
    ELSE AbsentMetaFile

\* VectorStore.__init__(dimension, index_path, metadata_path): a new
\* instance replaces the current one (a restart), unless the constructor
\* raises and the caller is left with what it had.
Construct(d, ip, mp) ==
    /\ IF MakedirsRaises(ip)
       THEN /\ UNCHANGED <<dimension, index, metadata, origin>>
            /\ call' = [NoCall EXCEPT !.op = "open", !.ret = "raised",
                                      !.ipath = ip, !.mpath = mp]
       ELSE LET s == _init_index(d, diskIndex, MetaFileAt(mp, diskMeta),
                                 diskOrigin)
            IN  /\ dimension' = d
                /\ index' = s.index
                /\ metadata' = s.metadata
                /\ origin' = s.origin
                /\ call' = [NoCall EXCEPT !.op = "open", !.ret = "VectorStore",
                                          !.ipath = ip, !.mpath = mp]
    /\ UNCHANGED <<diskIndex, diskMeta, diskOrigin, inflight, other, chunker>>

\* Construction on the paths the artifacts are kept at.
Open(d) == Construct(d, UsablePath, UsablePath)

Next ==
    \/ \E vs \in Batches, ml \in MetaLists : AddVectors(vs, ml)
    \/ \E d \in Dims : Open(d)

Spec == Init /\ [][Next]_vars

\* One instance from construction on, no restart.
NextAdd == \E vs \in Batches, ml \in MetaLists : AddVectors(vs, ml)

SpecAdd == Init /\ [][NextAdd]_vars

\* ---------------------------------------------------------------- queries
\* search and get_metadata read the store and change nothing, so they are
\* exercised on every store that one add_vectors call on a new store leaves
\* behind: a batch of up to MaxStored vectors of the store's width, with a
\* metadata list of any length up to MaxStored.
StoredBatches(d) == UNION {[1..n -> [1..d -> Components]] : n \in 1..MaxStored}
StoredLists == UNION {[1..n -> Records] : n \in 0..MaxStored}

InitStored(d, vs, recs) ==
    /\ dimension = d
    /\ index = IndexAdd(IndexFlatL2(d), vs)
    /\ metadata = recs
    /\ origin = PairedWith(vs, [none |-> FALSE, recs |-> recs])
    /\ diskIndex = write_index(index)
    /\ diskMeta = json_dump(metadata)
    /\ diskOrigin = origin
    /\ call = NoCall
    /\ inflight = Idle
    /\ other = NoInstance
    /\ chunker = NotChunking

\* A record list of the length of the batch, all of one record.
SameRecord(n) == [i \in 1..n |-> [type |-> "text", source |-> "cat.txt"]]

InitSearch ==
    \/ Init
    \/ \E d \in Dims : \E vs \in StoredBatches(d) :
          InitStored(d, vs, SameRecord(Len(vs)))

NextSearch == \E q \in Vectors, k \in 1..MaxK : Search(q, k)

SpecSearch == InitSearch /\ [][NextSearch]_vars

\* One vector per record, or a single vector where the list is empty.
ZeroBatch(d, n) == [i \in 1..n |-> [j \in 1..d |-> 0]]

InitMeta ==
    \/ Init
    \/ \E recs \in StoredLists : \E n \in 1..MaxStored :
          InitStored(1, ZeroBatch(1, n), recs)

NextMeta == \E idxs \in IndexLists : GetMetadata(idxs)

SpecMeta == InitMeta /\ [][NextMeta]_vars

\* ----------------------------------------------------------- construction
\* What a process can find on disk when it constructs a store: each
\* artifact absent, unreadable, or as written by an earlier store, the two
\* artifacts in any combination.
FileStates == {"absent", "corrupt", "ok"}

InitOpen ==
    \E d \in Dims, is \in FileStates, ms \in FileStates :
    \E vs \in StoredBatches(d) \cup {<<>>}, recs \in StoredLists :
        LET bs == IF is = "ok" THEN vs ELSE <<>>
            rs == IF ms = "ok" THEN recs ELSE <<>>
        IN  /\ dimension \in Dims
            /\ index = IndexFlatL2(dimension)
            /\ metadata = <<>>
            /\ origin = <<>>
            /\ diskIndex = IF is = "ok"
                           THEN write_index(IndexAdd(IndexFlatL2(d), bs))
                           ELSE IF is = "corrupt" THEN CorruptIndexFile
                           ELSE AbsentIndexFile
            /\ diskMeta = IF ms = "ok" THEN json_dump(rs)
                          ELSE IF ms = "corrupt" THEN CorruptMetaFile
                          ELSE AbsentMetaFile
            /\ diskOrigin = PairedWith(bs, [none |-> FALSE, recs |-> rs])
            /\ call = NoCall
            /\ inflight = Idle
            /\ other = NoInstance
            /\ chunker = NotChunking

NextOpen == \E d \in Dims, ip \in PathKinds, mp \in PathKinds : Construct(d, ip, mp)

SpecOpen == InitOpen /\ [][NextOpen]_vars

\* ------------------------------------------------------------ concurrency
\* One add_vectors call running on a thread of its own, statement by
\* statement, while reader threads look at the same instance or construct
\* an instance of their own on the same paths (gui_interface.process_query
\* runs on a thread per query and constructs its own VectorStore). Neither
\* VectorStore nor its callers take a lock. Each statement is taken as
\* atomic, which the interpreter lock gives at best.

\* vectors_np = np.array(...); self.index.add(vectors_np)
AddBegin(vs, ml) ==
    /\ inflight.pc = "idle"
    /\ ntotal(index) + Len(vs) <= MaxStored
    /\ Len(metadata) + Len(ml.recs) <= MaxStored
    /\ LET started(pc) ==
            [pc |-> pc, vs |-> vs, ml |-> ml, pre |-> ntotal(index),
             wellFormed |-> /\ ~AddRaises(index, vs)
                            /\ ~ml.none
                            /\ Len(vs) = Len(ml.recs),
             faulted |-> FALSE]
       IN  IF AddRaises(index, vs)
           THEN /\ inflight' = started("done")
                /\ UNCHANGED <<index, origin>>
           ELSE /\ inflight' = started("added")
                /\ index' = IndexAdd(index, vs)
                /\ origin' = origin \o PairedWith(vs, ml)
    /\ UNCHANGED <<dimension, metadata, diskIndex, diskMeta, diskOrigin, call,
                   other, chunker>>

\* self.metadata.extend(metadata_list)
AddExtend ==
    /\ inflight.pc = "added"
    /\ IF inflight.ml.none
       THEN /\ inflight' = [inflight EXCEPT !.pc = "done"]
            /\ UNCHANGED metadata
       ELSE /\ inflight' = [inflight EXCEPT !.pc = "extended"]
            /\ metadata' = metadata \o inflight.ml.recs
    /\ UNCHANGED <<dimension, index, origin, diskIndex, diskMeta, diskOrigin, call,
                   other, chunker>>

\* faiss.write_index opens the index file for writing: the file is cut and
\* holds a partial index until the write completes, or the open fails.
SaveOpenIndex ==
    /\ inflight.pc = "extended"
    /\ \/ /\ diskIndex' = CorruptIndexFile
          /\ inflight' = [inflight EXCEPT !.pc = "index_open"]
       \/ /\ UNCHANGED diskIndex
          /\ inflight' = [inflight EXCEPT !.pc = "done", !.faulted = TRUE]
    /\ UNCHANGED <<dimension, index, metadata, origin, diskMeta, diskOrigin, call,
                   other, chunker>>

\* faiss.write_index completes, or fails and leaves the partial file.
SaveWriteIndex ==
    /\ inflight.pc = "index_open"
    /\ \/ /\ diskIndex' = write_index(index)
          /\ diskOrigin' = origin
          /\ inflight' = [inflight EXCEPT !.pc = "index_written"]
       \/ /\ UNCHANGED <<diskIndex, diskOrigin>>
          /\ inflight' = [inflight EXCEPT !.pc = "done", !.faulted = TRUE]
    /\ UNCHANGED <<dimension, index, metadata, origin, diskMeta, call,
                   other, chunker>>

\* open(self.metadata_path, 'w'): the metadata file is cut, or the open
\* fails.
SaveOpenMeta ==
    /\ inflight.pc = "index_written"
    /\ \/ /\ diskMeta' = CorruptMetaFile
          /\ inflight' = [inflight EXCEPT !.pc = "meta_open"]
       \/ /\ UNCHANGED diskMeta
          /\ inflight' = [inflight EXCEPT !.pc = "done", !.faulted = TRUE]
    /\ UNCHANGED <<dimension, index, metadata, origin, diskIndex, diskOrigin, call,
                   other, chunker>>

\* json.dump(self.metadata, f) and the close of the file, or a failure
\* that leaves the partial file.
SaveDumpMeta ==
    /\ inflight.pc = "meta_open"
    /\ \/ /\ diskMeta' = json_dump(metadata)
          /\ inflight' = [inflight EXCEPT !.pc = "done"]
       \/ /\ UNCHANGED diskMeta
          /\ inflight' = [inflight EXCEPT !.pc = "done", !.faulted = TRUE]
    /\ UNCHANGED <<dimension, index, metadata, origin, diskIndex, diskOrigin, call,
                   other, chunker>>

\* The indices 0..n-1, as a search over the whole store reports them.
AllIndices(n) == [i \in 1..n |-> i - 1]

\* A reader on the same instance: the vector count, and the records
\* get_metadata returns for the indices of all stored vectors.
ReadSameInstance ==
    /\ call' = [NoCall EXCEPT
                  !.op = "read",
                  !.count = get_total_vectors(index),
                  !.nrecs = Len(get_metadata(metadata,
                                             AllIndices(get_total_vectors(index))))]
    /\ UNCHANGED <<dimension, index, metadata, origin, diskIndex, diskMeta, diskOrigin,
                   inflight, other, chunker>>

\* A reader that constructs its own VectorStore on the same paths and
\* looks at what it loaded; the writer's instance is not touched.
ReadNewInstance ==
    /\ LET s == _init_index(dimension, diskIndex, diskMeta, diskOrigin)
       IN  call' = [NoCall EXCEPT
                      !.op = "read_new",
                      !.count = get_total_vectors(s.index),
                      !.nrecs = Len(s.metadata)]
    /\ UNCHANGED <<dimension, index, metadata, origin, diskIndex, diskMeta, diskOrigin,
                   inflight, other, chunker>>

\* The store the one add_vectors call starts on: new, or holding what an
\* earlier complete add of as many records as vectors left, on disk too.
InitConcurrent ==
    \/ Init
    \/ \E d \in Dims : \E vs \in StoredBatches(d) :
          InitStored(d, vs, SameRecord(Len(vs)))

NextConcurrent ==
    \/ \E vs \in Batches, ml \in MetaLists : AddBegin(vs, ml)
    \/ AddExtend
    \/ SaveOpenIndex
    \/ SaveWriteIndex
    \/ SaveOpenMeta
    \/ SaveDumpMeta
    \/ ReadSameInstance
    \/ ReadNewInstance

SpecConcurrent == InitConcurrent /\ [][NextConcurrent]_vars

\* -------------------------------------------------------------- retrieval
\* What the embedding model does with one query: it raises (or, for images,
\* is not available), or yields a vector of some length, the empty vector
\* included.
QueryVectors == { <<>>, <<0>>, <<1>>, <<0, 0>> }
EncodeOutcomes ==
    { [raises |-> TRUE, v |-> <<>>] }
    \cup { [raises |-> FALSE, v |-> v] : v \in QueryVectors }

\* TextEmbedder.embed_texts(texts), given what the model does with each of
\* the texts: model.encode takes the whole list in one call, so the result
\* is one vector per text, or [] when the call raised on any of them.
embed_texts(encs) ==
    IF \E i \in 1..Len(encs) : encs[i].raises
    THEN <<>>
    ELSE [i \in 1..Len(encs) |-> encs[i].v]

\* An embedder that answers a failed encode with a vector of zeros.
EmbedTextZeroFallback(enc) ==
    IF enc.raises
    THEN [raised |-> FALSE, v |-> <<0>>]
    ELSE [raised |-> FALSE, v |-> enc.v]

\* TextEmbedder.embed_text(text): embed_texts([text])[0], which is an
\* IndexError when embed_texts returned [].
embed_text(enc) ==
    LET embeddings == embed_texts(<<enc>>)
    IN  IF Len(embeddings) = 0
        THEN [raised |-> TRUE, v |-> <<>>]
        ELSE [raised |-> FALSE, v |-> embeddings[1]]

\* ImageEmbedder.embed_images([path]): one vector, or one empty list when
\* CLIP is not available or anything raised.
embed_images(enc) == IF enc.raises THEN << <<>> >> ELSE <<enc.v>>

\* ImageEmbedder.embed_image(path): [] without CLIP, else embeddings[0].
embed_image(enc) ==
    LET embeddings == embed_images(enc)
    IN  [raised |-> FALSE,
         v |-> IF Len(embeddings) > 0 THEN embeddings[1] ELSE <<>>]

\* The places of the metadata log, handed to get_metadata in place of the
\* records so that the result says which stored dict each entry is:
\* get_metadata returns the stored dicts themselves, not copies.
Positions(meta) == [p \in 1..Len(meta) |-> p]

\* np.max(distances)
MaxOf(ds) == CHOOSE m \in {ds[i] : i \in 1..Len(ds)} : \A i \in 1..Len(ds) : ds[i] <= m

\* A score, 1 - d / m, as the exact fraction (m - d) / m.
Fraction(num, den) == [num |-> num, den |-> den]

\* result['distance'] for the result at place i of the result list.
DistanceAt(distances, i) == IF i <= Len(distances) THEN distances[i] ELSE 0

\* result['relevance_score'] for the result at place i of the result list:
\* the distance at place i of the search, over the largest of all the
\* distances the search returned.
ScoreAt(distances, i) ==
    IF Len(distances) = 0 THEN Fraction(0, 1)
    ELSE IF MaxOf(distances) > 0
    THEN Fraction(MaxOf(distances) - distances[i], MaxOf(distances))
    ELSE Fraction(0, 1)

\* The metadata log after the loop over the results: the dict at each
\* listed place has its 'distance' and 'relevance_score' keys set, and a
\* dict listed more than once keeps what the last pass wrote.
Annotated(meta, refs, distances) ==
    [p \in 1..Len(meta) |->
        IF \E i \in 1..Len(refs) : refs[i] = p
        THEN LET i == CHOOSE i \in 1..Len(refs) :
                        /\ refs[i] = p
                        /\ \A j \in 1..Len(refs) : refs[j] = p => j <= i
             IN  [type |-> meta[p].type, source |-> meta[p].source,
                  distance |-> DistanceAt(distances, i),
                  relevance_score |-> ScoreAt(distances, i)]
        ELSE meta[p]]

\* A retrieve method without its handler: the exception reaches the caller.
RetrieveReraises(raised) == IF raised THEN "raised" ELSE "list"

\* What a retrieve method hands back: a list on every path, since its
\* handler turns any exception into `return []`.
RetrieveReturn(raised) == "list"

\* The body the three retrieve methods share: embed, give up on an empty
\* embedding, search, get_metadata, optionally keep the image records,
\* write distance and score into each result, return the results. Any
\* exception makes the method return [].
Retrieve(op, e, enc, k, imagesOnly) ==
    /\ IF e.raised \/ Len(e.v) = 0
       THEN /\ call' = [Keeping EXCEPT !.op = op, !.k = k, !.q = enc.v,
                                       !.ret = RetrieveReturn(e.raised),
                                       !.embRaises = enc.raises]
            /\ UNCHANGED metadata
       ELSE \E r \in search(index, e.v, k) :
              LET hits == get_metadata(Positions(metadata), r.indices)
                  refs == IF imagesOnly
                          THEN SelectSeq(hits, LAMBDA p : metadata[p].type = "image")
                          ELSE hits
                  after == Annotated(metadata, refs, r.distances)
              IN  /\ metadata' = after
                  /\ call' = [Keeping EXCEPT
                                !.op = op, !.k = k, !.q = enc.v,
                                !.ret = RetrieveReturn(FALSE),
                                !.embRaises = enc.raises,
                                !.searched = TRUE,
                                !.indices = r.indices,
                                !.distances = r.distances,
                                !.refs = refs,
                                !.results = [i \in 1..Len(refs) |-> after[refs[i]]]]
    /\ UNCHANGED <<dimension, index, origin, diskIndex, diskMeta, diskOrigin, inflight, other, chunker>>

\* Retriever.retrieve_text(query, k)
RetrieveText(enc, k) == Retrieve("retrieve_text", embed_text(enc), enc, k, FALSE)

\* Retriever.retrieve_image(query, k)
RetrieveImage(enc, k) == Retrieve("retrieve_image", embed_text(enc), enc, k, TRUE)

\* Retriever.retrieve_by_image(image_path, k)
RetrieveByImage(enc, k) ==
    Retrieve("retrieve_by_image", embed_image(enc), enc, k, FALSE)

\* Retrieval is exercised on the new store and on every store that one
\* add_vectors call of one or two vectors of dimension 1, with as many
\* records, leaves behind.
RetrievalStoreSizes == {1, 2}

InitRetrieve ==
    \/ Init
    \/ \E n \in RetrievalStoreSizes :
       \E vs \in [1..n -> [1..1 -> Components]], recs \in [1..n -> Records] :
          InitStored(1, vs, recs)

NextRetrieve ==
    \/ \E enc \in EncodeOutcomes, k \in 1..MaxK : RetrieveText(enc, k)
    \/ \E enc \in EncodeOutcomes, k \in 1..MaxK : RetrieveImage(enc, k)
    \/ \E enc \in EncodeOutcomes, k \in 1..MaxK : RetrieveByImage(enc, k)

SpecRetrieve == InitRetrieve /\ [][NextRetrieve]_vars

\* -------------------------------------------------------------- ingestion
\* The chunk records of a text or document file, as process_text and the
\* document processor build them ('text' itself is left out: every chunk
\* has it, so the filter on it keeps every chunk).
ChunkRecords(n) ==
    [i \in 1..n |-> [type |-> "text", source |-> "cat.txt", chunk |-> i - 1]]

ImageRecord == [type |-> "image", source |-> "pic.png"]
AudioRecord == [type |-> "audio", source |-> "talk.mp3"]

\* What the text model does with the texts of one file: it cannot encode
\* those in bad, and gives a vector of its own width for each of the rest.
ChunkOutcomes(n, bad, width) ==
    [i \in 1..n |->
        IF i \in bad
        THEN [raises |-> TRUE, v |-> <<>>]
        ELSE [raises |-> FALSE, v |-> [j \in 1..width |-> 0]]]

\* AudioEmbedder.embed_audio_text(transcript, text_embedder): the text
\* embedding, or [] when embed_text raised.
embed_audio_text(enc) ==
    IF embed_text(enc).raised THEN <<>> ELSE embed_text(enc).v

\* The caller's part of the call record for one file of ingest_directory:
\* the unit, what _process_file returns for it, the records whose text the
\* model could encode, and processed_count after the file.
Unit(unit, ret, ok) ==
    [NoCall EXCEPT !.unit = unit, !.unitRet = ret, !.okRecs = ok,
                   !.pre = ntotal(index), !.preMeta = Len(metadata),
                   !.processed = IF ret = "True" THEN call.processed + 1
                                 ELSE call.processed,
                   !.loaded = call.loaded]

\* A file whose processor returned nothing: _process_* returns False and
\* the store is not called.
Skipped(unit) ==
    /\ call' = Unit(unit, "False", <<>>)
    /\ UNCHANGED <<dimension, index, metadata, origin, diskIndex, diskMeta, diskOrigin,
                   inflight, other, chunker>>

\* Ingestor._process_document / _process_text share their body: no chunks
\* is False; else embed all the texts, add_vectors(embeddings, chunks) and
\* True.
ProcessChunks(unit, chunks, encs) ==
    /\ call.processed < MaxFiles
    /\ IF Len(chunks) = 0
       THEN Skipped(unit)
       ELSE AddVectorsAs(embed_texts(encs), [none |-> FALSE, recs |-> chunks],
                         Unit(unit, "True",
                              SelectSeq(chunks,
                                        LAMBDA c : ~encs[c.chunk + 1].raises)))

\* Ingestor._process_document(file_path)
ProcessDocument(chunks, encs) == ProcessChunks("document", chunks, encs)

\* Ingestor._process_text(file_path)
ProcessText(chunks, encs) == ProcessChunks("text", chunks, encs)

\* Ingestor._process_image(file_path): no metadata is False; else
\* add_vectors([embed_image(path)], metadata) and True.
ProcessImage(found, enc) ==
    /\ call.processed < MaxFiles
    /\ IF ~found
       THEN Skipped("image")
       ELSE AddVectorsAs(<<embed_image(enc).v>>,
                         [none |-> FALSE, recs |-> <<ImageRecord>>],
                         Unit("image", "True",
                              IF Len(embed_image(enc).v) = 0 THEN <<>>
                              ELSE <<ImageRecord>>))

\* [[0.0] * config.get('models.text_embedding.dim', 384)]: the batch of one
\* vector of zeros of the configured dimension, the one the Ingestor gave
\* its VectorStore.
ZeroEmbedding(dim) == <<[j \in 1..dim |-> 0]>>

\* Ingestor._process_audio(file_path): no metadata is False; without a
\* transcript a vector of zeros of the configured dimension is added with
\* the metadata; with one, its text embedding. True in both cases.
ProcessAudio(found, transcribed, enc) ==
    /\ call.processed < MaxFiles
    /\ IF ~found
       THEN Skipped("audio")
       ELSE IF ~transcribed
       THEN AddVectorsAs(ZeroEmbedding(dimension),
                         [none |-> FALSE, recs |-> <<AudioRecord>>],
                         [Unit("audio", "True", <<>>)
                             EXCEPT !.transcript = "empty"])
       ELSE AddVectorsAs(<<embed_audio_text(enc)>>,
                         [none |-> FALSE, recs |-> <<AudioRecord>>],
                         [Unit("audio", "True",
                               IF Len(embed_audio_text(enc)) = 0 THEN <<>>
                               ELSE <<AudioRecord>>)
                             EXCEPT !.transcript = "text"])

\* The files of a directory: chunked files of up to two chunks with a text
\* model of either width that fails on any of the chunks, images and audio
\* files with every outcome of their embedder.
ChunkCounts == {0, 1, 2}
ModelWidths == {1, 2}

NextIngest ==
    \/ \E n \in ChunkCounts, w \in ModelWidths : \E bad \in SUBSET (1..n) :
          ProcessDocument(ChunkRecords(n), ChunkOutcomes(n, bad, w))
    \/ \E n \in ChunkCounts, w \in ModelWidths : \E bad \in SUBSET (1..n) :
          ProcessText(ChunkRecords(n), ChunkOutcomes(n, bad, w))
    \/ \E found \in BOOLEAN, enc \in EncodeOutcomes : ProcessImage(found, enc)
    \/ \E found \in BOOLEAN, transcribed \in BOOLEAN, enc \in EncodeOutcomes :
          ProcessAudio(found, transcribed, enc)

\* What the configured paths hold when an Ingestor is constructed: nothing,
\* or the artifacts of one vector and its record that an earlier run saved
\* with the dimension configured at that time.
EarlierRuns == {<<>>} \cup {ZeroBatch(d0, 1) : d0 \in Dims}

\* Ingestor.__init__: VectorStore(dimension, index_path, metadata_path)
\* with the configured dimension on the configured paths. The count the
\* store was loaded with is kept, and processed_count = 0.
InitIngest ==
    \E d \in Dims, prior \in EarlierRuns :
        LET recs == [i \in 1..Len(prior) |-> ImageRecord]
            forigin == PairedWith(prior, [none |-> FALSE, recs |-> recs])
            ifile == IF prior = <<>> THEN AbsentIndexFile
                     ELSE write_index(IndexAdd(IndexFlatL2(Len(prior[1])), prior))
            mfile == IF prior = <<>> THEN AbsentMetaFile ELSE json_dump(recs)
            s == _init_index(d, ifile, mfile, forigin)
        IN  /\ dimension = d
            /\ index = s.index
            /\ metadata = s.metadata
            /\ origin = s.origin
            /\ diskIndex = ifile
            /\ diskMeta = mfile
            /\ diskOrigin = forigin
            /\ call = [NoCall EXCEPT !.loaded = ntotal(s.index)]
            /\ inflight = Idle
            /\ other = NoInstance
            /\ chunker = NotChunking

\* Ingestor.ingest_directory, file by file.
SpecIngest == InitIngest /\ [][NextIngest]_vars

\* ------------------------------------------------- reads between retrievals
\* The index lists a caller asks get_metadata for twice: in range, out of
\* range and negative ones.
ProbeLists == {<<0>>, <<1, 0>>, <<0 - 1>>, <<2>>}

\* The new store and every store that one add_vectors call of one or two
\* vectors of dimension 1, each with the same record, leaves behind.
InitReadAndRetrieve ==
    \/ Init
    \/ \E n \in RetrievalStoreSizes : \E vs \in [1..n -> [1..1 -> Components]] :
          InitStored(1, vs, SameRecord(n))

\* A host that reads records with get_metadata and runs text retrievals in
\* any order; there is no add_vectors call.
NextReadAndRetrieve ==
    \/ \E idxs \in ProbeLists : GetMetadata(idxs)
    \/ \E enc \in EncodeOutcomes, k \in 1..MaxK : RetrieveText(enc, k)

SpecReadAndRetrieve == InitReadAndRetrieve /\ [][NextReadAndRetrieve]_vars

\* ------------------------------------------- two instances on the same paths
\* One store as a value: what an instance keeps in memory, with the record
\* of the last call made on it.
Instance(d, idx, meta, org, c) ==
    [dimension |-> d, index |-> idx, metadata |-> meta, origin |-> org,
     call |-> c]

\* The host turns to its other VectorStore instance: the next call is made
\* on that one. The files are shared, the memory of each instance is its
\* own.
UseOther ==
    /\ other # NoInstance
    /\ dimension' = other.dimension
    /\ index' = other.index
    /\ metadata' = other.metadata
    /\ origin' = other.origin
    /\ call' = other.call
    /\ other' = Instance(dimension, index, metadata, origin, call)
    /\ UNCHANGED <<diskIndex, diskMeta, diskOrigin, inflight, chunker>>

\* The one add_vectors call an instance makes: a vector of the store's
\* dimension with its record.
AddOnce(v, rec) ==
    /\ call.op # "add"
    /\ AddVectors(<<v>>, [none |-> FALSE, recs |-> <<rec>>])

\* Two VectorStore instances constructed one after the other on the same
\* paths, which hold nothing or the artifacts of one vector and its record:
\* both load the same state.
InitTwoInstances ==
    \E d \in Dims : \E prior \in {<<>>, ZeroBatch(d, 1)} :
        LET recs == [i \in 1..Len(prior) |-> ImageRecord]
            forigin == PairedWith(prior, [none |-> FALSE, recs |-> recs])
            ifile == IF prior = <<>> THEN AbsentIndexFile
                     ELSE write_index(IndexAdd(IndexFlatL2(d), prior))
            mfile == IF prior = <<>> THEN AbsentMetaFile ELSE json_dump(recs)
            s == _init_index(d, ifile, mfile, forigin)
        IN  /\ dimension = d
            /\ index = s.index
            /\ metadata = s.metadata
            /\ origin = s.origin
            /\ diskIndex = ifile
            /\ diskMeta = mfile
            /\ diskOrigin = forigin
            /\ call = NoCall
            /\ inflight = Idle
            /\ other = Instance(d, s.index, s.metadata, s.origin, NoCall)
            /\ chunker = NotChunking

\* The calls are made one at a time, on either instance.
NextTwoInstances ==
    \/ \E v \in InputVectors, rec \in Records : AddOnce(v, rec)
    \/ UseOther

SpecTwoInstances == InitTwoInstances /\ [][NextTwoInstances]_vars

\* ---------------------------------------------------------------- chunking
\* TextProcessor._chunk_text(text), for a text of len characters: a text
\* no longer than chunk_size is returned as the one chunk; else the loop
\* starts at 0 with no chunks.
ChunkBegin(len, chunk_size, chunk_overlap) ==
    /\ chunker.pc \in {"idle", "done"}
    /\ chunker' = IF len <= chunk_size
                  THEN [pc |-> "done", len |-> len, chunk_size |-> chunk_size,
                        chunk_overlap |-> chunk_overlap, start |-> 0,
                        chunks |-> 1]
                  ELSE [pc |-> "loop", len |-> len, chunk_size |-> chunk_size,
                        chunk_overlap |-> chunk_overlap, start |-> 0,
                        chunks |-> 0]
    /\ UNCHANGED <<dimension, index, metadata, origin, diskIndex, diskMeta,
                   diskOrigin, call, inflight, other>>

\* len(chunks), counted up to MaxChunks.
Appended(n) == IF n < MaxChunks THEN n + 1 ELSE MaxChunks

\* A start position, kept at -MaxText once it is at or below it: the loop
\* treats every position that far below 0 alike.
Position(p) == IF p < 0 - MaxText THEN 0 - MaxText ELSE p

\* The first half of one pass of `while start < len(text)`: leave when the
\* test fails; else append text[start:end] and move start to
\* end - chunk_overlap.
ChunkAppend ==
    /\ chunker.pc = "loop"
    /\ IF ~(chunker.start < chunker.len)
       THEN chunker' = [chunker EXCEPT !.pc = "done"]
       ELSE LET end == Min(chunker.start + chunker.chunk_size, chunker.len)
            IN  chunker' = [chunker EXCEPT
                              !.pc = "moved",
                              !.start = Position(end - chunker.chunk_overlap),
                              !.chunks = Appended(chunker.chunks)]
    /\ UNCHANGED <<dimension, index, metadata, origin, diskIndex, diskMeta,
                   diskOrigin, call, inflight, other>>

\* The second half: leave when start is at or past the end of the text, or
\* when less than chunk_size characters remain, after appending what
\* remains; else go round again.
ChunkAdvance ==
    /\ chunker.pc = "moved"
    /\ chunker' =
          IF chunker.start >= chunker.len
          THEN [chunker EXCEPT !.pc = "done"]
          ELSE IF chunker.start + chunker.chunk_size > chunker.len
          THEN [chunker EXCEPT
                  !.pc = "done",
                  !.chunks = IF chunker.len - chunker.start > 0
                             THEN Appended(chunker.chunks)
                             ELSE chunker.chunks]
          ELSE [chunker EXCEPT !.pc = "loop"]
    /\ UNCHANGED <<dimension, index, metadata, origin, diskIndex, diskMeta,
                   diskOrigin, call, inflight, other>>

\* The loop of a call in progress.
ChunkStep == ChunkAppend \/ ChunkAdvance

\* TextProcessor(chunk_size, chunk_overlap) as the Ingestor configures it
\* from processing.chunk_size and processing.chunk_overlap, which it does
\* not validate, run on one text after the other.
NextChunk ==
    \/ \E len \in 0..MaxText, chunk_size \in 1..MaxChunkSize,
          chunk_overlap \in 0..MaxOverlap :
          ChunkBegin(len, chunk_size, chunk_overlap)
    \/ ChunkAppend
    \/ ChunkAdvance

SpecChunk == Init /\ [][NextChunk]_vars

\* A call that is in its loop goes on running.
SpecChunkFair == SpecChunk /\ WF_vars(ChunkStep)

\* ================================================================ claims
\* The store a new VectorStore(dimension, same paths) would be right now.
Reloaded == _init_index(dimension, diskIndex, diskMeta, diskOrigin)

\* The vector/metadata-list lengths of the last add_vectors call differ.
LengthMismatch == call.nm >= 0 /\ call.nv # call.nm

\* C1: on a store that started empty and has only seen add_vectors calls,
\* the index holds as many vectors as the metadata log holds records, and
\* the i-th record is the one passed together with the i-th vector.
C1_PositionallyAligned ==
    /\ get_total_vectors(index) = Len(metadata)
    /\ \A i \in 1..Len(metadata) : origin[i] = <<metadata[i]>>

\* C2: an add_vectors call whose two lists differ in length leaves the
\* vector count and the metadata log as they were.
C2_MismatchLeavesStoreAlone ==
    (call.op = "add" /\ LengthMismatch) => ~call.changed

\* C3: an add_vectors call with n vectors of the store's dimension and n
\* records raises the count by n, and get_metadata of each new position
\* returns the record passed at that place in the call.
C3_AddThenGetMetadata ==
    (call.op = "add" /\ call.nv = call.nm /\ call.widthOk) =>
        /\ get_total_vectors(index) = call.pre + call.nv
        /\ \A j \in 0..(call.nv - 1) :
              get_metadata(metadata, <<call.pre + j>>) = origin[call.pre + j + 1]

\* C4: every vector the store holds has the length of the store's
\* dimension, and an add_vectors call whose batch has a vector of another
\* length changes neither the index nor the metadata log.
C4_EveryVectorHasStoreDimension ==
    /\ \A i \in 1..get_total_vectors(index) : Len(index.vecs[i]) = dimension
    /\ (call.op = "add" /\ ~call.widthOk) => ~call.changed

\* C5: add_vectors hands a structural violation (list lengths differ, or a
\* vector of the wrong length) back to its caller as an outcome other than
\* that of a successful add.
C5_ViolationReported ==
    (call.op = "add" /\ (LengthMismatch \/ ~call.widthOk)) =>
        call.ret # AddReturn(FALSE)

\* C6: search on a store with no vectors returns two empty lists, for every
\* query and every k >= 1.
C6_EmptyStoreSearchIsEmpty ==
    (call.op = "search" /\ get_total_vectors(index) = 0) =>
        (call.indices = <<>> /\ call.distances = <<>>)

\* C7: search with k above the number n > 0 of stored vectors returns
\* exactly n indices and n distances: each index in 0..n-1, none repeated,
\* no padding, distances ascending.
C7_SearchBeyondCountReturnsAll ==
    (/\ call.op = "search"
     /\ Len(call.q) = index.d
     /\ get_total_vectors(index) > 0
     /\ call.k > get_total_vectors(index)) =>
        /\ Len(call.indices) = get_total_vectors(index)
        /\ Len(call.distances) = get_total_vectors(index)
        /\ \A i \in 1..Len(call.indices) :
              call.indices[i] \in 0..(get_total_vectors(index) - 1)
        /\ \A i, j \in 1..Len(call.indices) :
              i # j => call.indices[i] # call.indices[j]
        /\ \A i, j \in 1..Len(call.distances) :
              i < j => call.distances[i] <= call.distances[j]

\* C8: get_metadata returns the records at exactly those of the given
\* indices i with 0 <= i < number of records, in the order given, and
\* nothing for any other index (negative, or at or past the count).
C8_GetMetadataSkipsOutOfBounds ==
    call.op = "get_metadata" =>
        LET valid == SelectSeq(call.idxs,
                               LAMBDA i : 0 <= i /\ i < Len(metadata))
        IN  call.recs = [j \in 1..Len(valid) |-> metadata[valid[j] + 1]]

\* C9: after add_vectors returns with no disk write having failed, a new
\* store constructed on the same paths has the same vector count and the
\* same metadata records in the same order as this one.
C9_ReloadMatchesAfterAdd ==
    (call.op = "add" /\ call.fault = "none") =>
        /\ get_total_vectors(Reloaded.index) = get_total_vectors(index)
        /\ Reloaded.metadata = metadata

\* C10: search with 1 <= k <= n returns k distinct indices of stored
\* vectors, each with its own (squared) L2 distance to the query at the
\* same position, nearest first, no vector left out being nearer than one
\* returned; a stored vector equal to the query comes first, at distance 0.
C10_SearchReturnsKNearest ==
    (/\ call.op = "search"
     /\ Len(call.q) = index.d
     /\ call.k <= get_total_vectors(index)) =>
        /\ Len(call.indices) = call.k
        /\ Len(call.distances) = call.k
        /\ \A i \in 1..call.k :
              /\ call.indices[i] \in 0..(get_total_vectors(index) - 1)
              /\ call.distances[i] = L2Sqr(index.vecs[call.indices[i] + 1], call.q)
        /\ \A i, j \in 1..call.k :
              /\ i # j => call.indices[i] # call.indices[j]
              /\ i < j => call.distances[i] <= call.distances[j]
        /\ \A p \in 1..get_total_vectors(index) :
              (\A i \in 1..call.k : call.indices[i] # p - 1) =>
                 L2Sqr(index.vecs[p], call.q) >= call.distances[call.k]
        /\ (\E p \in 1..get_total_vectors(index) : index.vecs[p] = call.q) =>
              /\ call.distances[1] = 0
              /\ index.vecs[call.indices[1] + 1] = call.q

\* C10 witness: the scenario of the specification at dimension 2. Vectors
\* [1,0] and [0,1] are stored, the query [1,0] with k = 1 found index 0 at
\* distance 0.
C10_Witness ==
    /\ call.op = "search"
    /\ index.vecs = << <<1, 0>>, <<0, 1>> >>
    /\ call.q = <<1, 0>>
    /\ call.k = 1
    /\ call.indices = <<0>>
    /\ call.distances = <<0>>

\* The artifacts a store was constructed on, at the paths it was given.
OpenedOnUsablePaths ==
    call.op = "open" /\ call.ipath = UsablePath /\ call.mpath = UsablePath

ExactlyOneArtifact ==
    (diskIndex.state = "absent") # (diskMeta.state = "absent")

EitherArtifactCorrupt ==
    diskIndex.state = "corrupt" \/ diskMeta.state = "corrupt"

EmptyStore == get_total_vectors(index) = 0 /\ metadata = <<>>

\* C11: constructing a store when exactly one of the two artifacts exists,
\* or when either of them is unreadable or corrupt (a readable index with a
\* corrupt metadata file included), does not raise and yields an empty
\* store: no vectors and an empty metadata log.
C11_HalfOrCorruptArtifactsGiveEmptyStore ==
    (OpenedOnUsablePaths /\ (ExactlyOneArtifact \/ EitherArtifactCorrupt)) =>
        (call.ret = "VectorStore" /\ EmptyStore)

\* C11 witness: a store was constructed on a readable index file holding
\* vectors and a corrupt metadata file, and came up empty.
C11_Witness ==
    /\ OpenedOnUsablePaths
    /\ diskIndex.state = "ok" /\ diskIndex.n > 0
    /\ diskMeta.state = "corrupt"
    /\ call.ret = "VectorStore"
    /\ EmptyStore

\* C12: constructing a store with dimension D on artifacts whose index has
\* another dimension gives an empty store of dimension D; the opened store
\* holds no vector of a length other than D.
C12_OtherDimensionIsLoadError ==
    (/\ OpenedOnUsablePaths
     /\ diskIndex.state = "ok" /\ diskMeta.state = "ok"
     /\ diskIndex.d # dimension) =>
        /\ EmptyStore
        /\ index.d = dimension
        /\ \A i \in 1..get_total_vectors(index) : Len(index.vecs[i]) = dimension

\* C13: constructing a store with an index_path or metadata_path that is
\* None, a bare file name, or inside a directory that cannot be created
\* does not raise and yields an empty store.
C13_UnusablePathGivesEmptyStore ==
    (call.op = "open" /\ (call.ipath # UsablePath \/ call.mpath # UsablePath)) =>
        (call.ret = "VectorStore" /\ EmptyStore)

\* C14: an add_vectors call of n vectors and n records during which the
\* write of either artifact fails still returns normally, and the store in
\* memory holds what was added: the count grew by n, the metadata log grew
\* by n, and get_metadata of each new log position returns the record
\* passed at that place. Nothing is rolled back.
C14_FailedWriteKeepsAddInMemory ==
    (call.op = "add" /\ call.fault # "none" /\ call.nv = call.nm) =>
        /\ call.ret = "None"
        /\ get_total_vectors(index) = call.pre + call.nv
        /\ Len(metadata) = call.preMeta + call.nm
        /\ \A j \in 0..(call.nm - 1) :
              get_metadata(metadata, <<call.preMeta + j>>) = origin[call.pre + j + 1]

\* C14 witness: a store holding one pair took one more pair while the
\* metadata write failed; it holds two vectors and two records, and the
\* metadata file is not the one this store would write.
C14_Witness ==
    /\ call.op = "add" /\ call.fault = "meta"
    /\ call.nv = 1 /\ call.nm = 1 /\ call.pre = 1
    /\ get_total_vectors(index) = 2
    /\ Len(metadata) = 2
    /\ diskMeta # json_dump(metadata)

\* C15: a reader that runs while one add_vectors call of n vectors and n
\* records is in progress (no write failing), on the same instance or on
\* an instance it constructs from the same paths, sees as many vectors as
\* metadata records, and that count is the one before the add or the one
\* after it.
C15_ReaderSeesPreOrPostState ==
    (/\ call.op \in {"read", "read_new"}
     /\ inflight.pc # "idle"
     /\ inflight.wellFormed
     /\ ~inflight.faulted) =>
        /\ call.count = call.nrecs
        /\ call.count \in {inflight.pre, inflight.pre + Len(inflight.vs)}

RetrieveOps == {"retrieve_text", "retrieve_image", "retrieve_by_image"}

\* C16: when the embedder yields an empty vector, or fails to yield one,
\* retrieve_text, retrieve_image and retrieve_by_image return an empty list
\* and VectorStore.search is not called.
C16_NoEmbeddingNoSearch ==
    (call.op \in RetrieveOps /\ (call.embRaises \/ call.q = <<>>)) =>
        (call.results = <<>> /\ ~call.searched)

\* C16 witness: on a store that holds vectors, retrieve_text was called,
\* the embedder failed, and the method returned [] without a search.
C16_Witness ==
    /\ call.op = "retrieve_text"
    /\ call.embRaises
    /\ get_total_vectors(index) > 0
    /\ call.results = <<>>
    /\ ~call.searched

\* The hits of a search: the indices it returned that are indices of
\* stored vectors, as places of the metadata log, in rank order.
HitPlaces ==
    LET real == SelectSeq(call.indices,
                          LAMBDA i : 0 <= i /\ i < get_total_vectors(index))
    IN  [j \in 1..Len(real) |-> real[j] + 1]

\* C17: retrieve_image returns exactly the records, among the hits of its
\* one search for k, whose type is 'image', in rank order; on a store of
\* text records only it returns the empty list.
C17_ImageResultsAreTheImageHits ==
    (call.op = "retrieve_image" /\ call.searched) =>
        /\ call.refs = SelectSeq(HitPlaces,
                                 LAMBDA p : /\ p <= Len(metadata)
                                            /\ metadata[p].type = "image")
        /\ (\A p \in 1..Len(metadata) : metadata[p].type = "text") =>
              call.results = <<>>

\* Two fractions are the same number.
SameFraction(a, b) ==
    IF a.den = b.den THEN a.num = b.num ELSE a.num * b.den = b.num * a.den

\* C18: in every result list of the three retrieve methods, each result's
\* relevance_score is 1 - d / m, with d the result's own distance and m
\* the largest distance among the results of the returned list; the score
\* lies in [0, 1] and is 0 when m is 0.
C18_ScoreRelativeToReturnedList ==
    (call.op \in RetrieveOps /\ call.results # <<>>) =>
        LET m == MaxOf([i \in 1..Len(call.results) |-> call.results[i].distance])
        IN  \A i \in 1..Len(call.results) :
              LET r == call.results[i]
              IN  /\ 0 <= r.relevance_score.num
                  /\ r.relevance_score.num <= r.relevance_score.den
                  /\ IF m = 0
                     THEN r.relevance_score.num = 0
                     ELSE SameFraction(r.relevance_score,
                                       Fraction(m - r.distance, m))

\* C19: an ingestion unit that results in no vector being added (the
\* embedding step returned nothing, an empty vector, or a vector of the
\* wrong dimension) makes its _process_* method return False, and
\* ingest_directory does not count it.
C19_NothingAddedIsNotSuccess ==
    [][ (call'.unit # "" /\ get_total_vectors(index') = get_total_vectors(index)) =>
            (call'.unitRet = "False" /\ call'.processed = call.processed) ]_vars

\* C20: when some but not all records of one text or document unit yield
\* a vector, exactly the (vector, record) pairs that succeeded are added,
\* in their order, and the unit is reported successful.
C20_PartialBatchAddsSucceedingPairs ==
    (/\ call.unit \in {"text", "document"}
     /\ Len(call.okRecs) > 0
     /\ Len(call.okRecs) < call.nm) =>
        /\ call.unitRet = "True"
        /\ get_total_vectors(index) = call.pre + Len(call.okRecs)
        /\ Len(metadata) = call.preMeta + Len(call.okRecs)
        /\ \A j \in 1..Len(call.okRecs) :
              /\ call.preMeta + j <= Len(metadata)
              /\ metadata[call.preMeta + j] = call.okRecs[j]

\* C21: for an audio file without a transcript, _process_audio adds exactly
\* one entry, the file's record paired with a vector of zeros of the
\* store's dimension: the vector count and the metadata log each grow by
\* one, and the file is reported as processed.
C21_SilentAudioAddsPlaceholder ==
    (call.unit = "audio" /\ call.transcript = "empty")
    => /\ call.unitRet = "True"
       /\ ntotal(index) = call.pre + 1
       /\ Len(metadata) = call.preMeta + 1
       /\ index.vecs[ntotal(index)] = [j \in 1..index.d |-> 0]
       /\ metadata[Len(metadata)] = AudioRecord
\* C22: retrieve_text, retrieve_image and retrieve_by_image never raise,
\* whatever the store holds (nothing, fewer than k vectors, or more) and
\* whatever the query; on an empty store each returns the empty list.
C22_RetrieveNeverRaises ==
    call.op \in RetrieveOps
    => /\ call.ret = "list"
       /\ EmptyStore => call.results = <<>>

C22_Witness ==
    /\ call.op = "retrieve_text"
    /\ call.searched
    /\ call.k > 1
    /\ call.ret = "list"
    /\ EmptyStore
    /\ call.results = <<>>
\* The places of the log whose records search and get_metadata handed to
\* the method before the image filter.
HitsOf(c) == get_metadata(Positions(metadata), c.indices)

\* What retrieve_image returns on an empty store: the search result is all
\* padding and get_metadata gives no record for it.
ImageResultOnEmptyStore == get_metadata(<<>>, <<NoLabel>>)

\* C23: what retrieve_image returns when the store is populated but every
\* top-k hit was removed by the image filter differs from what it returns
\* on an empty store, so that the caller can tell the two apart.
C23_FilteredOutDiffersFromEmpty ==
    (/\ call.op = "retrieve_image"
     /\ call.searched
     /\ ntotal(index) > 0
     /\ Len(HitsOf(call)) > 0
     /\ call.refs = <<>>)
    => call.results # ImageResultOnEmptyStore
\* C24: after ingest_directory on a directory with a supported text file
\* whose chunks are all embedded (as vectors of the configured dimension,
\* and with both artifacts written), the returned count is at least 1 and
\* a VectorStore constructed on the configured paths afterwards reports
\* more vectors than one constructed before the ingestion.
C24_IngestedTextFileGrowsTheStore ==
    (/\ call.unit = "text"
     /\ call.unitRet = "True"
     /\ call.nv >= 1
     /\ Len(call.okRecs) = call.nm
     /\ call.widthOk
     /\ call.fault = "none")
    => /\ call.processed >= 1
       /\ ntotal(Reloaded.index) > call.loaded
\* The records in the list the caller holds from its earlier get_metadata
\* call, as the caller reads them now.
HeldRecords == HeldDicts(call.heldRefs, call.heldRecs)

AsAdded(meta, org) ==
    \A p \in 1..Len(meta) : p <= Len(org) => org[p] = <<meta[p]>>

\* C26: retrievals leave the store as it was: after any sequence of
\* retrieve calls the stored records are the ones originally added, with
\* no 'distance' or 'relevance_score' field, and the metadata artifact
\* holds the originally added records as well.
C26_RetrievalLeavesRecordsAsAdded ==
    /\ AsAdded(metadata, origin)
    /\ \A p \in 1..Len(metadata) :
          DOMAIN metadata[p] \cap {"distance", "relevance_score"} = {}
    /\ diskMeta.state = "ok" => AsAdded(json_load(diskMeta), diskOrigin)
\* C27: in every list a retrieve method returns, each result's 'distance'
\* is the distance search reported for the index of that same record, also
\* when earlier hits were removed by the image filter or skipped by
\* get_metadata as out of bounds.
C27_DistanceBelongsToItsRecord ==
    (call.op \in RetrieveOps /\ call.searched)
    => \A i \in 1..Len(call.results) :
          \E j \in 1..Len(call.indices) :
             /\ call.indices[j] < Len(metadata)
             /\ call.indices[j] >= 0 - Len(metadata)
             /\ PyItem(Positions(metadata), call.indices[j]) = call.refs[i]
             /\ call.results[i].distance = call.distances[j]
\* C28: after a VectorStore is constructed on any pair of existing
\* artifacts, the pair that _save_index leaves when it wrote the index file
\* and failed before the metadata file was completely written included,
\* get_total_vectors() equals the number of metadata records: the two were
\* loaded aligned or the store fell back to empty.
C28_LoadedStoreIsAligned ==
    (/\ OpenedOnUsablePaths
     /\ call.ret = "VectorStore"
     /\ diskIndex.state # "absent"
     /\ diskMeta.state # "absent")
    => get_total_vectors(index) = Len(metadata)
\* C29: when two VectorStore instances are constructed on the same paths
\* and each then makes one add_vectors call, the calls never overlapping,
\* a store constructed afterwards holds the vectors and the records of
\* both batches.
C29_SerializedAddsOfTwoInstancesBothKept ==
    (/\ call.op = "add" /\ call.changed /\ call.fault = "none"
     /\ other.call.op = "add" /\ other.call.changed
     /\ other.call.fault = "none")
    => /\ ntotal(Reloaded.index) = call.pre + call.nv + other.call.nv
       /\ Len(Reloaded.metadata) = call.preMeta + call.nm + other.call.nm
       /\ \E i, j \in 1..ntotal(Reloaded.index) :
             /\ i # j
             /\ Reloaded.index.vecs[i] = index.vecs[ntotal(index)]
             /\ Reloaded.index.vecs[j] = other.index.vecs[ntotal(other.index)]
\* C30: _chunk_text terminates for every text and every configuration
\* with chunk_size >= 1 and chunk_overlap >= 0, the configurations with
\* chunk_overlap >= chunk_size included.
C30_ChunkTextTerminates ==
    (chunker.pc \in {"loop", "moved"}) ~> (chunker.pc = "done")
====
